---- MODULE Spec2Model ----
(***************************************************************************)
(* Model of the weewx MATE3 driver (bin/user/mate.py): the construction of *)
(* MATEDriver, the poll loop genLoopPackets, the flattener raw_to_sensors, *)
(* the record builder sensors_to_fields and the pattern matcher            *)
(* _find_match.                                                            *)
(*                                                                         *)
(* A Python string is a sequence of one-character strings, so that split,  *)
(* glob matching, int() and float() act on characters.  A Python value is  *)
(* a record [t, m, e, s]: t the type name, (m, e) the number m * 10^-e, s  *)
(* the characters of a string.  A dict is a function from keys to values.  *)
(***************************************************************************)
EXTENDS Integers, Sequences, FiniteSets, TLC

VARIABLES
    stn_dict,    \* the configuration stanza handed to MATEDriver(**stn_dict)
    pc,          \* position of the driver: construction and poll loop
    self,        \* the attributes __init__ sets (max_tries, retry_wait, ...)
    exc,         \* the exception that left the constructor or the generator
    ntries,      \* genLoopPackets: local ntries
    resp,        \* what the device answered to this cycle's HTTP GET
    data,        \* genLoopPackets: local data (get_data's return value)
    sensors,     \* genLoopPackets: local sensors
    packet,      \* genLoopPackets: local packet
    consec,      \* history: I/O failures since the last fetch that did not fail
    slept,       \* history: the sleep of the latest cycle (none, poll, retry)
    yields,      \* history: records handed to the caller in the current cycle
    nraised,     \* history: how often RetriesExceeded was raised
    fetched,     \* history: whether an HTTP request was ever issued
    pattern,     \* _find_match: argument pattern
    keylist,     \* _find_match: argument keylist, in iteration order
    match,       \* _find_match: return value
    called       \* whether _find_match has returned for (pattern, keylist)

vars == << stn_dict, pc, self, exc, ntries, resp, data, sensors, packet,
           consec, slept, yields, nraised, fetched,
           pattern, keylist, match, called >>

driverVars == << stn_dict, pc, self, exc, ntries, resp, data, sensors, packet,
                 consec, slept, yields, nraised, fetched >>

matchVars == << pattern, keylist, match, called >>

(***************************************************************************)
(* Strings                                                                 *)
(***************************************************************************)

\* The printable ASCII characters in code order (for character ranges), less
\* the double quote, the backslash and the backquote.
Ascii ==
  << " ", "!", "#", "$", "%", "&", "'", "(", ")", "*", "+", ",", "-", ".", "/",
     "0", "1", "2", "3", "4", "5", "6", "7", "8", "9", ":", ";", "<", "=", ">", "?",
     "@", "A", "B", "C", "D", "E", "F", "G", "H", "I", "J", "K", "L", "M", "N", "O",
     "P", "Q", "R", "S", "T", "U", "V", "W", "X", "Y", "Z", "[", "]", "^", "_",
     "a", "b", "c", "d", "e", "f", "g", "h", "i", "j", "k", "l", "m", "n", "o",
     "p", "q", "r", "s", "t", "u", "v", "w", "x", "y", "z", "{", "|", "}", "~" >>

Code(c) == CHOOSE i \in 1..Len(Ascii) : Ascii[i] = c

Digits == << "0", "1", "2", "3", "4", "5", "6", "7", "8", "9" >>

IsDigit(c) == \E i \in 1..10 : Digits[i] = c

DigitVal(c) == (CHOOSE i \in 1..10 : Digits[i] = c) - 1

\* Python's None where a string is expected: no string has this shape, every
\* element of a string being one character.
None == << "None" >>

\* s.split('.')
RECURSIVE SplitFrom(_, _)
SplitFrom(s, cur) ==
    IF s = << >> THEN << cur >>
    ELSE IF Head(s) = "." THEN << cur >> \o SplitFrom(Tail(s), << >>)
    ELSE SplitFrom(Tail(s), Append(cur, Head(s)))

Split(s) == SplitFrom(s, << >>)

\* x in keylist
InList(x, list) == \E i \in 1..Len(list) : list[i] = x

(***************************************************************************)
(* fnmatch: translate the pattern, then match the whole value              *)
(***************************************************************************)

\* The index of the ']' closing the class opened by p[1] = "[", 0 if none.
ClassEnd(p) ==
    LET n  == Len(p)
        j1 == IF 2 <= n /\ p[2] = "!" THEN 3 ELSE 2
        j2 == IF j1 <= n /\ p[j1] = "]" THEN j1 + 1 ELSE j1
        cl == { k \in j2..n : p[k] = "]" }
    IN  IF cl = {} THEN 0 ELSE CHOOSE k \in cl : \A k2 \in cl : k <= k2

RECURSIVE ClassMembers(_, _)
ClassMembers(body, c) ==
    IF body = << >> THEN FALSE
    ELSE IF Len(body) >= 3 /\ body[2] = "-"
         THEN \/ Code(body[1]) <= Code(c) /\ Code(c) <= Code(body[3])
              \/ ClassMembers(SubSeq(body, 4, Len(body)), c)
         ELSE body[1] = c \/ ClassMembers(Tail(body), c)

\* Whether character c is in the class [stuff]; a leading '!' negates.
InClass(stuff, c) ==
    IF Head(stuff) = "!" THEN ~ ClassMembers(Tail(stuff), c)
    ELSE ClassMembers(stuff, c)

RECURSIVE GlobMatch(_, _)
GlobMatch(p, s) ==
    IF p = << >> THEN s = << >>
    ELSE IF Head(p) = "*"
         THEN GlobMatch(Tail(p), s) \/ (s # << >> /\ GlobMatch(p, Tail(s)))
    ELSE IF Head(p) = "?"
         THEN s # << >> /\ GlobMatch(Tail(p), Tail(s))
    ELSE IF Head(p) = "[" /\ ClassEnd(p) # 0
         THEN /\ s # << >>
              /\ InClass(SubSeq(p, 2, ClassEnd(p) - 1), Head(s))
              /\ GlobMatch(SubSeq(p, ClassEnd(p) + 1, Len(p)), Tail(s))
    ELSE s # << >> /\ Head(s) = Head(p) /\ GlobMatch(Tail(p), Tail(s))

\* MATEDriver._part_match
_part_match(pat, value) == GlobMatch(pat, value)

(***************************************************************************)
(* MATEDriver._find_match                                                  *)
(***************************************************************************)

\* Whether key k is accepted for the split pattern pparts: the two branches
\* of the loop body.
KeyAccepted(pparts, k) ==
    LET kparts == Split(k)
    IN  \/ /\ Len(kparts) = 2
           /\ _part_match(pparts[1], kparts[1])
           /\ _part_match(pparts[2], kparts[2])
        \/ pparts[1] = k

\* for k in keylist: ... break
RECURSIVE FirstAccepted(_, _)
FirstAccepted(pparts, keys) ==
    IF keys = << >> THEN None
    ELSE IF KeyAccepted(pparts, Head(keys)) THEN Head(keys)
    ELSE FirstAccepted(pparts, Tail(keys))

_find_match_no_exact(pat, keys) ==
    LET pparts == Split(pat)
    IN  IF Len(pparts) = 2 THEN FirstAccepted(pparts, keys) ELSE None

_find_match_last(pat, keys) ==
    IF InList(pat, keys) THEN pat
    ELSE LET pparts == Split(pat)
             hits   == { i \in 1..Len(keys) : KeyAccepted(pparts, keys[i]) }
         IN  IF Len(pparts) = 2 /\ hits # {}
             THEN keys[CHOOSE i \in hits : \A j \in hits : j <= i]
             ELSE None

_find_match(pat, keys) ==
    IF InList(pat, keys) THEN pat
    ELSE LET pparts == Split(pat)
         IN  IF Len(pparts) = 2 THEN FirstAccepted(pparts, keys) ELSE None

(***************************************************************************)
(* Python values and the conversions int(), float() and '%s'                *)
(***************************************************************************)

PyInt(n)   == [t |-> "int", m |-> n, e |-> 0, s |-> << >>]
PyStr(str) == [t |-> "unicode", m |-> 0, e |-> 0, s |-> str]
PyNone     == [t |-> "NoneType", m |-> 0, e |-> 0, s |-> << >>]
PyList     == [t |-> "list", m |-> 0, e |-> 0, s |-> << >>]

\* The float m * 10^-e, without trailing zeros in the fraction.
RECURSIVE PyFloat(_, _)
PyFloat(m, e) ==
    IF e > 0 /\ m % 10 = 0 THEN PyFloat(m \div 10, e - 1)
    ELSE [t |-> "float", m |-> m, e |-> e, s |-> << >>]

\* An exception raised in place of a value.
Raised(name) == [t |-> name, m |-> 0, e |-> 0, s |-> << >>]

IsRaised(v) == v.t \in { "KeyError", "ValueError", "TypeError" }

RECURSIVE Pow10(_)
Pow10(e) == IF e = 0 THEN 1 ELSE 10 * Pow10(e - 1)

AllDigits(str) == \A i \in 1..Len(str) : IsDigit(str[i])

\* The number a string of digits denotes (0 for the empty string).
RECURSIVE DigitsVal(_)
DigitsVal(str) ==
    IF str = << >> THEN 0
    ELSE 10 * DigitsVal(SubSeq(str, 1, Len(str) - 1)) + DigitVal(str[Len(str)])

HasSign(str) == str # << >> /\ Head(str) \in { "+", "-" }

Unsigned(str) == IF HasSign(str) THEN Tail(str) ELSE str

SignOf(str) == IF str # << >> /\ Head(str) = "-" THEN -1 ELSE 1

\* int(v).  Of strings, the decimal integers with an optional sign convert;
\* the inputs of the model hold no blanks.
int(v) ==
    IF v.t = "int" THEN v
    ELSE IF v.t = "float"
         THEN PyInt((IF v.m < 0 THEN -1 ELSE 1)
                    * ((IF v.m < 0 THEN -v.m ELSE v.m) \div Pow10(v.e)))
    ELSE IF v.t = "unicode"
         THEN IF Unsigned(v.s) # << >> /\ AllDigits(Unsigned(v.s))
              THEN PyInt(SignOf(v.s) * DigitsVal(Unsigned(v.s)))
              ELSE Raised("ValueError")
    ELSE Raised("TypeError")

\* float(v).  Of strings, the decimal numbers with an optional sign and an
\* optional fraction convert; the inputs of the model hold no blanks, no
\* exponent, and neither inf nor nan.
float(v) ==
    IF v.t = "int" THEN PyFloat(v.m, 0)
    ELSE IF v.t = "float" THEN v
    ELSE IF v.t = "unicode"
         THEN LET parts == Split(Unsigned(v.s))
                  frac  == IF Len(parts) = 2 THEN parts[2] ELSE << >>
              IN  IF /\ Len(parts) \in { 1, 2 }
                     /\ AllDigits(parts[1]) /\ AllDigits(frac)
                     /\ Len(parts[1]) + Len(frac) > 0
                  THEN PyFloat(SignOf(v.s) * DigitsVal(parts[1] \o frac), Len(frac))
                  ELSE Raised("ValueError")
    ELSE Raised("TypeError")

\* '%s' % n for an int n
RECURSIVE NatToStr(_)
NatToStr(n) ==
    IF n < 10 THEN << Digits[n + 1] >>
    ELSE NatToStr(n \div 10) \o << Digits[(n % 10) + 1] >>

IntToStr(n) == IF n < 0 THEN << "-" >> \o NatToStr(-n) ELSE NatToStr(n)

\* if x: for a string or None
Truthy(str) == str # None /\ str # << >>

\* The dict f updated with the entries of g.
Update(f, g) ==
    [x \in DOMAIN f \cup DOMAIN g |-> IF x \in DOMAIN g THEN g[x] ELSE f[x]]

EmptyDict == << >>

(***************************************************************************)
(* The strings of the driver                                               *)
(***************************************************************************)

s_Port == <<"P", "o", "r", "t">>

s_Dev == <<"D", "e", "v">>

s_sys_time == <<"s", "y", "s", "_", "t", "i", "m", "e">>

s_sys_battery == <<"s", "y", "s", "_", "b", "a", "t", "t", "e", "r", "y">>

s_dateTime == <<"d", "a", "t", "e", "T", "i", "m", "e">>

s_usUnits == <<"u", "s", "U", "n", "i", "t", "s">>

DEFAULT_MAP ==
    (<<"s", "y", "s", "t", "e", "m", "_", "b", "a", "t", "t", "e", "r", "y", "_", "v", "o", "l", "t", "a", "g", "e">> :> <<"S", "y", "s", "_", "B", "a", "t", "t", "_", "V">>) @@
    (<<"b", "a", "t", "t", "e", "r", "y", "_", "v", "o", "l", "t", "a", "g", "e">> :> <<"B", "a", "t", "t", "_", "V", ".", "*">>) @@
    (<<"b", "u", "y", "_", "L", "1", "_", "c", "u", "r", "r", "e", "n", "t">> :> <<"B", "u", "y", "_", "I", "_", "L", "1", ".", "*">>) @@
    (<<"b", "u", "y", "_", "L", "2", "_", "c", "u", "r", "r", "e", "n", "t">> :> <<"B", "u", "y", "_", "I", "_", "L", "2", ".", "*">>) @@
    (<<"c", "h", "a", "r", "g", "e", "r", "_", "L", "1", "_", "c", "u", "r", "r", "e", "n", "t">> :> <<"C", "h", "g", "_", "I", "_", "L", "1", ".", "*">>) @@
    (<<"c", "h", "a", "r", "g", "e", "r", "_", "L", "2", "_", "c", "u", "r", "r", "e", "n", "t">> :> <<"C", "h", "g", "_", "I", "_", "L", "2", ".", "*">>) @@
    (<<"i", "n", "v", "e", "r", "t", "e", "r", "_", "L", "1", "_", "c", "u", "r", "r", "e", "n", "t">> :> <<"I", "n", "v", "_", "I", "_", "L", "1", ".", "*">>) @@
    (<<"i", "n", "v", "e", "r", "t", "e", "r", "_", "L", "2", "_", "c", "u", "r", "r", "e", "n", "t">> :> <<"I", "n", "v", "_", "I", "_", "L", "2", ".", "*">>) @@
    (<<"s", "e", "l", "l", "_", "L", "1", "_", "c", "u", "r", "r", "e", "n", "t">> :> <<"S", "e", "l", "l", "_", "I", "_", "L", "1", ".", "*">>) @@
    (<<"s", "e", "l", "l", "_", "L", "2", "_", "c", "u", "r", "r", "e", "n", "t">> :> <<"S", "e", "l", "l", "_", "I", "_", "L", "2", ".", "*">>) @@
    (<<"V", "A", "C", "1", "_", "L", "1", "_", "i", "n">> :> <<"V", "A", "C", "1", "_", "i", "n", "_", "L", "1", ".", "*">>) @@
    (<<"V", "A", "C", "1", "_", "L", "2", "_", "i", "n">> :> <<"V", "A", "C", "1", "_", "i", "n", "_", "L", "2", ".", "*">>) @@
    (<<"V", "A", "C", "2", "_", "L", "1", "_", "i", "n">> :> <<"V", "A", "C", "2", "_", "i", "n", "_", "L", "1", ".", "*">>) @@
    (<<"V", "A", "C", "2", "_", "L", "2", "_", "i", "n">> :> <<"V", "A", "C", "2", "_", "i", "n", "_", "L", "2", ".", "*">>) @@
    (<<"V", "A", "C", "_", "L", "1", "_", "o", "u", "t">> :> <<"V", "A", "C", "_", "o", "u", "t", "_", "L", "1", ".", "*">>) @@
    (<<"V", "A", "C", "_", "L", "2", "_", "o", "u", "t">> :> <<"V", "A", "C", "_", "o", "u", "t", "_", "L", "2", ".", "*">>) @@
    (<<"i", "n", "v", "e", "r", "t", "e", "r", "_", "c", "u", "r", "r", "e", "n", "t">> :> <<"I", "n", "v", "_", "I", ".", "*">>) @@
    (<<"c", "h", "a", "r", "g", "e", "r", "_", "c", "u", "r", "r", "e", "n", "t">> :> <<"C", "h", "g", "_", "I", ".", "*">>) @@
    (<<"b", "u", "y", "_", "c", "u", "r", "r", "e", "n", "t">> :> <<"B", "u", "y", "_", "I", ".", "*">>) @@
    (<<"s", "e", "l", "l", "_", "c", "u", "r", "r", "e", "n", "t">> :> <<"S", "e", "l", "l", "_", "I", ".", "*">>) @@
    (<<"V", "A", "C", "_", "i", "n">> :> <<"v", "o", "l", "t", "a", "g", "e", "_", "i", "n", ".", "*">>) @@
    (<<"V", "A", "C", "_", "o", "u", "t">> :> <<"v", "o", "l", "t", "a", "g", "e", "_", "o", "u", "t", ".", "*">>) @@
    (<<"o", "u", "t", "p", "u", "t", "_", "c", "u", "r", "r", "e", "n", "t">> :> <<"O", "u", "t", "_", "I", ".", "*">>) @@
    (<<"i", "n", "p", "u", "t", "_", "c", "u", "r", "r", "e", "n", "t">> :> <<"I", "n", "_", "I", ".", "*">>) @@
    (<<"i", "n", "p", "u", "t", "_", "v", "o", "l", "t", "a", "g", "e">> :> <<"I", "n", "_", "V", ".", "*">>) @@
    (<<"o", "u", "t", "p", "u", "t", "_", "e", "n", "e", "r", "g", "y">> :> <<"O", "u", "t", "_", "k", "W", "h", ".", "*">>) @@
    (<<"o", "u", "t", "p", "u", "t", "_", "c", "a", "p", "a", "c", "i", "t", "y">> :> <<"O", "u", "t", "_", "A", "H", ".", "*">>) @@
    (<<"s", "h", "u", "n", "t", "_", "a", "_", "c", "u", "r", "r", "e", "n", "t">> :> <<"S", "h", "u", "n", "t", "_", "A", "_", "I", ".", "*">>) @@
    (<<"s", "h", "u", "n", "t", "_", "a", "_", "c", "a", "p", "a", "c", "i", "t", "y">> :> <<"S", "h", "u", "n", "t", "_", "A", "_", "A", "H", ".", "*">>) @@
    (<<"s", "h", "u", "n", "t", "_", "a", "_", "e", "n", "e", "r", "g", "y">> :> <<"S", "h", "u", "n", "t", "_", "A", "_", "k", "W", "h", ".", "*">>) @@
    (<<"s", "h", "u", "n", "t", "_", "b", "_", "c", "u", "r", "r", "e", "n", "t">> :> <<"S", "h", "u", "n", "t", "_", "B", "_", "I", ".", "*">>) @@
    (<<"s", "h", "u", "n", "t", "_", "b", "_", "c", "a", "p", "a", "c", "i", "t", "y">> :> <<"S", "h", "u", "n", "t", "_", "B", "_", "A", "H", ".", "*">>) @@
    (<<"s", "h", "u", "n", "t", "_", "b", "_", "e", "n", "e", "r", "g", "y">> :> <<"S", "h", "u", "n", "t", "_", "B", "_", "k", "W", "h", ".", "*">>) @@
    (<<"s", "h", "u", "n", "t", "_", "c", "_", "c", "u", "r", "r", "e", "n", "t">> :> <<"S", "h", "u", "n", "t", "_", "C", "_", "I", ".", "*">>) @@
    (<<"s", "h", "u", "n", "t", "_", "c", "_", "c", "a", "p", "a", "c", "i", "t", "y">> :> <<"S", "h", "u", "n", "t", "_", "C", "_", "A", "H", ".", "*">>) @@
    (<<"s", "h", "u", "n", "t", "_", "c", "_", "e", "n", "e", "r", "g", "y">> :> <<"S", "h", "u", "n", "t", "_", "C", "_", "k", "W", "h", ".", "*">>) @@
    (<<"s", "t", "a", "t", "e", "_", "o", "f", "_", "c", "h", "a", "r", "g", "e">> :> <<"S", "O", "C", ".", "*">>) @@
    (<<"s", "t", "a", "t", "e", "_", "o", "f", "_", "c", "h", "a", "r", "g", "e", "_", "m", "i", "n">> :> <<"M", "i", "n", "_", "S", "O", "C", ".", "*">>) @@
    (<<"d", "a", "y", "s", "_", "s", "i", "n", "c", "e", "_", "f", "u", "l", "l">> :> <<"D", "a", "y", "s", "_", "s", "i", "n", "c", "e", "_", "f", "u", "l", "l", ".", "*">>) @@
    (<<"i", "n", "p", "u", "t", "_", "c", "a", "p", "a", "c", "i", "t", "y", "_", "t", "o", "d", "a", "y">> :> <<"I", "n", "_", "A", "H", "_", "t", "o", "d", "a", "y", ".", "*">>) @@
    (<<"o", "u", "t", "p", "u", "t", "_", "c", "a", "p", "a", "c", "i", "t", "y", "_", "t", "o", "d", "a", "y">> :> <<"O", "u", "t", "_", "A", "H", "_", "t", "o", "d", "a", "y", ".", "*">>) @@
    (<<"i", "n", "p", "u", "t", "_", "e", "n", "e", "r", "g", "y", "_", "t", "o", "d", "a", "y">> :> <<"I", "n", "_", "k", "W", "h", "_", "t", "o", "d", "a", "y", ".", "*">>) @@
    (<<"o", "u", "t", "p", "u", "t", "_", "e", "n", "e", "r", "g", "y", "_", "t", "o", "d", "a", "y">> :> <<"O", "u", "t", "_", "k", "W", "h", "_", "t", "o", "d", "a", "y", ".", "*">>) @@
    (<<"n", "e", "t", "_", "c", "a", "p", "a", "c", "i", "t", "y">> :> <<"N", "e", "t", "_", "C", "F", "C", "_", "A", "H", ".", "*">>) @@
    (<<"n", "e", "t", "_", "e", "n", "e", "r", "g", "y">> :> <<"N", "e", "t", "_", "C", "F", "C", "_", "k", "W", "h", ".", "*">>) @@
    (<<"b", "a", "t", "t", "e", "r", "y", "_", "t", "e", "m", "p", "e", "r", "a", "t", "u", "r", "e">> :> <<"B", "a", "t", "t", "_", "t", "e", "m", "p", ".", "*">>)

\* weewx.US, the unit system tag of the record
US == 1

(***************************************************************************)
(* MATE.get_data: one HTTP GET, then json.loads                            *)
(***************************************************************************)

\* A key the decoded object does not hold.
Absent == [t |-> "absent", m |-> 0, e |-> 0, s |-> << >>]

\* The decoded status: whether it holds 'devstatus', the values of Sys_Time
\* and Sys_Batt_V in it (or Absent), whether it holds 'ports', and the list
\* of port objects, each a dict from field name to value.
RawStatus(dev, time, batt, hasports, ports) ==
    [devstatus |-> dev, Sys_Time |-> time, Sys_Batt_V |-> batt,
     has_ports |-> hasports, ports |-> ports]

\* dict()
EmptyStatus == RawStatus(FALSE, Absent, Absent, FALSE, << >>)

\* What urlopen(...).read() gives: an IOError, a body json.loads rejects, or
\* a body it decodes to obj.
Response(kind, obj) == [kind |-> kind, obj |-> obj]

\* get_data's return value for a response that is no IOError: the ValueError
\* of json.loads is caught and an empty dict returned.
get_data(r) == IF r.kind = "json" THEN r.obj ELSE EmptyStatus

(***************************************************************************)
(* MATEDriver.raw_to_sensors                                               *)
(***************************************************************************)

\* label = '%s.%s' % (k, port)
Label(k, port) == k \o << "." >> \o IntToStr(port)

\* The keys of a port object the inner loop skips.
Skipped == { s_Port, s_Dev }

PortEntriesUnconverted(portdata, port) ==
    LET fields == DOMAIN portdata \ Skipped
    IN  [l \in { Label(k, port) : k \in fields } |->
            portdata[CHOOSE k \in fields : Label(k, port) = l]]

PortEntriesAbort(portdata, port) ==
    LET fields == DOMAIN portdata \ Skipped
    IN  IF \E k \in fields : IsRaised(float(portdata[k])) THEN EmptyDict
        ELSE [l \in { Label(k, port) : k \in fields } |->
                 float(portdata[CHOOSE k \in fields : Label(k, port) = l])]

\* The entries one port object adds to pkt: a field whose value float()
\* rejects is logged and left out.
PortEntries(portdata, port) ==
    LET fields == { k \in DOMAIN portdata \ Skipped : ~ IsRaised(float(portdata[k])) }
    IN  [l \in { Label(k, port) : k \in fields } |->
            float(portdata[CHOOSE k \in fields : Label(k, port) = l])]

\* for portdata in data['devstatus']['ports']: ...
RECURSIVE PortsLoop(_, _)
PortsLoop(ports, pkt) ==
    IF ports = << >> THEN [exc |-> "none", pkt |-> pkt]
    ELSE LET portdata == Head(ports)
             port     == IF s_Port \in DOMAIN portdata
                         THEN int(portdata[s_Port]) ELSE Raised("KeyError")
         IN  IF IsRaised(port) THEN [exc |-> port.t, pkt |-> EmptyDict]
             ELSE PortsLoop(Tail(ports), Update(pkt, PortEntries(portdata, port.m)))

\* The entries for Sys_Time and Sys_Batt_V.
SysEntries(raw) ==
    LET keys == (IF raw.Sys_Time # Absent THEN { s_sys_time } ELSE { })
                \cup (IF raw.Sys_Batt_V # Absent THEN { s_sys_battery } ELSE { })
    IN  [k \in keys |-> IF k = s_sys_time THEN raw.Sys_Time ELSE raw.Sys_Batt_V]

raw_to_sensors(raw) ==
    IF ~ raw.devstatus THEN [exc |-> "none", pkt |-> EmptyDict]
    ELSE IF ~ raw.has_ports THEN [exc |-> "KeyError", pkt |-> EmptyDict]
    ELSE PortsLoop(raw.ports, SysEntries(raw))

(***************************************************************************)
(* MATEDriver.sensors_to_fields                                            *)
(***************************************************************************)

\* A sensor map: None, or a dict from output field to pattern.
SensorMap(map) == [none |-> FALSE, map |-> map]

SensorMapNone == [none |-> TRUE, map |-> EmptyDict]

\* pkt.get(label)
Get(pkt, label) == IF label \in DOMAIN pkt THEN pkt[label] ELSE PyNone

\* for n in sensor_map: ...   (order: the iteration order of sensor_map,
\* keys: the iteration order of pkt.keys())
RECURSIVE FieldsLoop(_, _, _, _, _)
FieldsLoop(pkt, map, keys, order, out) ==
    IF order = << >> THEN out
    ELSE LET n     == Head(order)
             label == _find_match(map[n], keys)
         IN  FieldsLoop(pkt, map, keys, Tail(order),
                        IF Truthy(label)
                        THEN Update(out, [x \in { n } |-> Get(pkt, label)])
                        ELSE out)

StampAlways(out, now) ==
    Update(out, [x \in { s_dateTime, s_usUnits } |->
                       IF x = s_dateTime THEN PyInt(now) ELSE PyInt(US)])

\* if packet: the time stamp and the unit system
Stamp(out, now) ==
    IF DOMAIN out # { }
    THEN Update(out, [x \in { s_dateTime, s_usUnits } |->
                            IF x = s_dateTime THEN PyInt(now) ELSE PyInt(US)])
    ELSE out

sensors_to_fields(pkt, sensor_map, keys, order, now) ==
    IF sensor_map.none THEN pkt
    ELSE Stamp(FieldsLoop(pkt, sensor_map.map, keys, order, EmptyDict), now)

(***************************************************************************)
(* MATEDriver.__init__                                                     *)
(***************************************************************************)

\* The defaults and the floor of __init__.
DefaultPort == 1

DefaultMaxTries == 5

DefaultRetryWait == 30

DefaultPollInterval == 30

MinPollInterval == 30

PollIntervalTooSmallNever(n) == FALSE

\* if self._poll_interval < 30
PollIntervalTooSmall(n) == n < MinPollInterval

\* stn_dict.get(key, default)
StnGet(stn, key, default) == IF key \in DOMAIN stn THEN stn[key] ELSE default

\* The exception leaving __init__ ("none" if it returns) and the attributes
\* it has set when it returns.
__init__(stn) ==
    LET port          == int(StnGet(stn, "port", PyInt(DefaultPort)))
        max_tries     == int(StnGet(stn, "max_tries", PyInt(DefaultMaxTries)))
        retry_wait    == int(StnGet(stn, "retry_wait", PyInt(DefaultRetryWait)))
        sensor_map    == StnGet(stn, "sensor_map", SensorMap(DEFAULT_MAP))
        poll_interval == int(StnGet(stn, "poll_interval", PyInt(DefaultPollInterval)))
        failed(e)     == [exc |-> e, self |-> << >>]
    IN  IF "host" \notin DOMAIN stn THEN failed("Exception")
        ELSE IF IsRaised(port) THEN failed(port.t)
        ELSE IF IsRaised(max_tries) THEN failed(max_tries.t)
        ELSE IF IsRaised(retry_wait) THEN failed(retry_wait.t)
        ELSE IF IsRaised(poll_interval) THEN failed(poll_interval.t)
        ELSE IF PollIntervalTooSmall(poll_interval.m) THEN failed("Exception")
        ELSE [exc  |-> "none",
              self |-> [host |-> stn["host"], port |-> port.m,
                        max_tries |-> max_tries.m, retry_wait |-> retry_wait.m,
                        sensor_map |-> sensor_map,
                        poll_interval |-> poll_interval.m]]

(***************************************************************************)
(* The inputs: configurations, device answers, clock readings              *)
(***************************************************************************)

\* max_tries is configured up to MaxTries (or left to its default).
MaxTries == 2

\* The clock reads 1..MaxClock.
MaxClock == 2

NoDevstatus ==
    EmptyStatus

NoPorts ==
    RawStatus(TRUE, Absent, PyFloat(245, 1), FALSE, << >>)

SysOnly ==
    RawStatus(TRUE, PyInt(7), PyFloat(245, 1), TRUE, << >>)

OneCC ==
    RawStatus(TRUE, Absent, Absent, TRUE, << (<<"P", "o", "r", "t">> :> PyStr(<<"1">>) @@ <<"D", "e", "v">> :> PyStr(<<"C", "C">>) @@ <<"B", "a", "t", "t", "_", "V">> :> PyStr(<<"2", "4", "8">>) @@ <<"O", "u", "t", "_", "I">> :> PyStr(<<"1", "2">>)) >>)

TwoPorts ==
    RawStatus(TRUE, Absent, PyStr(<<"2", "4", ".", "5">>), TRUE,
        << (<<"P", "o", "r", "t">> :> PyInt(1) @@ <<"D", "e", "v">> :> PyStr(<<"F", "X">>) @@ <<"L", "a", "b", "e", "l">> :> PyStr(<<"a", "b", "c">>) @@ <<"B", "a", "t", "t", "_", "V">> :> PyStr(<<"2", "4", ".", "5", "0">>)),
           (<<"P", "o", "r", "t">> :> PyStr(<<"2">>) @@ <<"D", "e", "v">> :> PyStr(<<"C", "C">>) @@ <<"B", "a", "t", "t", "_", "V">> :> PyInt(25) @@ <<"O", "u", "t", "_", "I">> :> PyNone) >>)

LabelOnly ==
    RawStatus(TRUE, Absent, Absent, TRUE, << (<<"D", "e", "v">> :> PyStr(<<"F", "X">>) @@ <<"P", "o", "r", "t">> :> PyInt(1) @@ <<"L", "a", "b", "e", "l">> :> PyStr(<<"a", "b", "c">>)) >>)

PortMissing ==
    RawStatus(TRUE, Absent, Absent, TRUE, << (<<"D", "e", "v">> :> PyStr(<<"F", "X">>) @@ <<"B", "a", "t", "t", "_", "V">> :> PyStr(<<"2", "4">>)) >>)

PortNotInt ==
    RawStatus(TRUE, Absent, Absent, TRUE,
        << (<<"P", "o", "r", "t">> :> PyStr(<<"1">>) @@ <<"D", "e", "v">> :> PyStr(<<"F", "X">>) @@ <<"B", "a", "t", "t", "_", "V">> :> PyStr(<<"2", "4">>)),
           (<<"P", "o", "r", "t">> :> PyStr(<<"x">>) @@ <<"D", "e", "v">> :> PyStr(<<"C", "C">>) @@ <<"O", "u", "t", "_", "I">> :> PyStr(<<"1", "2">>)) >>)

PortNull ==
    RawStatus(TRUE, Absent, Absent, TRUE, << (<<"P", "o", "r", "t">> :> PyNone @@ <<"B", "a", "t", "t", "_", "V">> :> PyStr(<<"2", "4">>)) >>)

SamePort ==
    RawStatus(TRUE, Absent, Absent, TRUE,
        << (<<"P", "o", "r", "t">> :> PyStr(<<"0", "1">>) @@ <<"D", "e", "v">> :> PyStr(<<"F", "X">>) @@ <<"B", "a", "t", "t", "_", "V">> :> PyStr(<<"2", "4">>) @@ <<"I", "n", "_", "V">> :> PyStr(<<"-", ".", "5">>)),
           (<<"P", "o", "r", "t">> :> PyFloat(15, 1) @@ <<"D", "e", "v">> :> PyStr(<<"C", "C">>) @@ <<"B", "a", "t", "t", "_", "V">> :> PyStr(<<"n", "/", "a">>) @@ <<"I", "n", "_", "V">> :> PyList @@ <<"a", ".", "b">> :> PyStr(<<"3", ".">>)) >>)

Statuses ==
    { NoDevstatus, NoPorts, SysOnly, OneCC, TwoPorts, LabelOnly, PortMissing, PortNotInt, PortNull, SamePort }

MapEndToEnd ==
    (<<"b", "a", "t", "t", "e", "r", "y", "_", "v", "o", "l", "t", "a", "g", "e">> :> <<"B", "a", "t", "t", "_", "V", ".", "*">>) @@
    (<<"o", "u", "t", "p", "u", "t", "_", "c", "u", "r", "r", "e", "n", "t">> :> <<"O", "u", "t", "_", "I", ".", "*">>)

MapMixed ==
    (<<"v", "1">> :> <<"B", "a", "t", "t", "_", "V", ".", "1">>) @@
    (<<"v", "2">> :> <<"[", "B", "I", "]", "*", "_", "V", ".", "2">>) @@
    (<<"s", "y", "s">> :> <<"s", "y", "s", "_", "b", "a", "t", "t", "e", "r", "y", ".", "x">>) @@
    (<<"a", "b">> :> <<"a", ".", "b", ".", "1">>)

\* The sensor maps a stanza can hold.
SensorMaps == { SensorMapNone, SensorMap(MapEndToEnd), SensorMap(MapMixed) }

\* An option of the stanza: present with value v, or left out.
Given(v) == [has |-> TRUE, v |-> v]

Omitted(v) == [has |-> FALSE, v |-> v]

Stanza(host, port, max_tries, retry_wait, poll_interval, sensor_map) ==
    LET all == [host |-> host, port |-> port, max_tries |-> max_tries,
                retry_wait |-> retry_wait, poll_interval |-> poll_interval,
                sensor_map |-> sensor_map]
    IN  [k \in { x \in DOMAIN all : all[x].has } |-> all[k].v]

StnDicts ==
    { Stanza(h, p, mt, rw, pi, sm) :
        h  \in { Omitted(PyNone), Given(PyStr(<<"m", "a", "t", "e">>)) },
        p  \in { Omitted(PyNone), Given(PyStr(<<"x">>)) },
        mt \in { Omitted(PyNone) } \cup { Given(PyStr(IntToStr(n))) : n \in 0..MaxTries },
        rw \in { Given(PyStr(<<"5">>)) },
        pi \in { Omitted(PyNone), Given(PyStr(<<"2", "9">>)), Given(PyStr(<<"3", "0">>)) },
        sm \in { Omitted(SensorMapNone) } \cup { Given(m) : m \in SensorMaps } }

\* What the device can answer to one request.
Responses ==
    { Response("IOError", EmptyStatus), Response("garbage", EmptyStatus) }
    \cup { Response("json", o) : o \in Statuses }

\* The orders a dict with key set S can be iterated in.
Orders(S) ==
    { o \in [1..Cardinality(S) -> S] : \A i, j \in 1..Cardinality(S) : i # j => o[i] # o[j] }

\* Sensor maps of up to MaxPermuted fields are iterated in every order, larger
\* ones in one order.
MaxPermuted == 4

RECURSIVE SomeOrder(_)
SomeOrder(S) ==
    IF S = { } THEN << >>
    ELSE LET x == CHOOSE y \in S : TRUE IN << x >> \o SomeOrder(S \ { x })

MapOrders(map) ==
    IF Cardinality(DOMAIN map) <= MaxPermuted THEN Orders(DOMAIN map)
    ELSE { SomeOrder(DOMAIN map) }

(***************************************************************************)
(* The driver: construction, then the generator genLoopPackets             *)
(***************************************************************************)

MatchIdle ==
    /\ pattern = << >>
    /\ keylist = << >>
    /\ match = None
    /\ called = FALSE

Init ==
    /\ stn_dict \in StnDicts
    /\ pc = "new"
    /\ self = << >>
    /\ exc = "none"
    /\ ntries = 0
    /\ resp = Response("none", EmptyStatus)
    /\ data = EmptyStatus
    /\ sensors = EmptyDict
    /\ packet = EmptyDict
    /\ consec = 0
    /\ slept = "none"
    /\ yields = 0
    /\ nraised = 0
    /\ fetched = FALSE
    /\ MatchIdle

\* loader: MATEDriver(**stn_dict)
MATEDriver ==
    /\ pc = "new"
    /\ LET r == __init__(stn_dict)
       IN  /\ exc' = r.exc
           /\ self' = r.self
           /\ pc' = IF r.exc = "none" THEN "constructed" ELSE "failed"
    /\ UNCHANGED << stn_dict, ntries, resp, data, sensors, packet,
                    consec, slept, yields, nraised, fetched >>
    /\ UNCHANGED matchVars

\* genLoopPackets is entered: ntries = 0
genLoopPackets ==
    /\ pc = "constructed"
    /\ ntries' = 0
    /\ pc' = "while"
    /\ UNCHANGED << stn_dict, self, exc, resp, data, sensors, packet,
                    consec, slept, yields, nraised, fetched >>
    /\ UNCHANGED matchVars

\* while ntries < self.max_tries
WhileCondition(n, max_tries) == n < max_tries

\* The loop test: a new cycle (ntries += 1), or the else branch that raises
\* RetriesExceeded.
While ==
    /\ pc = "while"
    /\ IF WhileCondition(ntries, self.max_tries)
       THEN /\ ntries' = ntries + 1
            /\ pc' = "try"
            /\ slept' = "none"
            /\ yields' = 0
            /\ UNCHANGED << exc, nraised >>
       ELSE /\ pc' = "aborted"
            /\ exc' = "RetriesExceeded"
            /\ nraised' = nraised + 1
            /\ UNCHANGED << ntries, slept, yields >>
    /\ UNCHANGED << stn_dict, self, resp, data, sensors, packet, consec, fetched >>
    /\ UNCHANGED matchVars

\* data = self._mate.get_data(): the request fails with an IOError, or
\* get_data returns.
GetData ==
    /\ pc = "try"
    /\ \E r \in Responses :
          /\ resp' = r
          /\ fetched' = TRUE
          /\ IF r.kind = "IOError"
             THEN /\ pc' = "except"
                  /\ consec' = consec + 1
                  /\ UNCHANGED data
             ELSE /\ pc' = "got"
                  /\ consec' = 0
                  /\ data' = get_data(r)
    /\ UNCHANGED << stn_dict, self, exc, ntries, sensors, packet,
                    slept, yields, nraised >>
    /\ UNCHANGED matchVars

\* sensors = self.raw_to_sensors(data): an exception of raw_to_sensors is no
\* IOError and leaves the generator.
RawToSensors ==
    /\ pc = "got"
    /\ LET r == raw_to_sensors(data)
       IN  IF r.exc = "none"
           THEN /\ sensors' = r.pkt
                /\ pc' = "flat"
                /\ UNCHANGED exc
           ELSE /\ exc' = r.exc
                /\ pc' = "raised"
                /\ UNCHANGED sensors
    /\ UNCHANGED << stn_dict, self, ntries, resp, data, packet,
                    consec, slept, yields, nraised, fetched >>
    /\ UNCHANGED matchVars

TriesAfterSuccessKept(n) == n

\* ntries = 0
TriesAfterSuccess(n) == 0

\* packet = self.sensors_to_fields(sensors, self._sensor_map); ntries = 0
SensorsToFields ==
    /\ pc = "flat"
    /\ \E keys \in Orders(DOMAIN sensors), now \in 1..MaxClock :
          IF self.sensor_map.none
          THEN packet' = sensors_to_fields(sensors, self.sensor_map, keys, << >>, now)
          ELSE \E order \in MapOrders(self.sensor_map.map) :
                  packet' = sensors_to_fields(sensors, self.sensor_map, keys, order, now)
    /\ ntries' = TriesAfterSuccess(ntries)
    /\ pc' = "built"
    /\ UNCHANGED << stn_dict, self, exc, resp, data, sensors,
                    consec, slept, yields, nraised, fetched >>
    /\ UNCHANGED matchVars

YieldsAlways(pk) == TRUE

\* if packet:
Yields(pk) == DOMAIN pk # { }

\* if packet: yield packet
Yield ==
    /\ pc = "built"
    /\ yields' = IF Yields(packet) THEN yields + 1 ELSE yields
    /\ pc' = "sleep"
    /\ UNCHANGED << stn_dict, self, exc, ntries, resp, data, sensors, packet,
                    consec, slept, nraised, fetched >>
    /\ UNCHANGED matchVars

\* time.sleep(self._poll_interval)
SleepPollInterval ==
    /\ pc = "sleep"
    /\ slept' = "poll"
    /\ pc' = "while"
    /\ UNCHANGED << stn_dict, self, exc, ntries, resp, data, sensors, packet,
                    consec, yields, nraised, fetched >>
    /\ UNCHANGED matchVars

\* except IOError: ... time.sleep(self.retry_wait)
ExceptIOError ==
    /\ pc = "except"
    /\ slept' = "retry"
    /\ pc' = "while"
    /\ UNCHANGED << stn_dict, self, exc, ntries, resp, data, sensors, packet,
                    consec, yields, nraised, fetched >>
    /\ UNCHANGED matchVars

Next ==
    \/ MATEDriver
    \/ genLoopPackets
    \/ While
    \/ GetData
    \/ RawToSensors
    \/ SensorsToFields
    \/ Yield
    \/ SleepPollInterval
    \/ ExceptIOError

Spec == Init /\ [][Next]_vars

(***************************************************************************)
(* _find_match on its own: the arguments are drawn from the keys and the   *)
(* patterns below, the key list in every iteration order.                  *)
(***************************************************************************)

MaxKeys == 3

Keys ==
    { <<"a", ".", "1">>,
      <<"a", ".", "2">>,
      <<"b", ".", "1">>,
      <<"a", "b", ".", "1">>,
      <<"a">>,
      <<"a", ".", "b", ".", "1">> }

Patterns ==
    { <<"a", ".", "*">>,
      <<"a", ".", "1">>,
      <<"*", ".", "1">>,
      <<"?", ".", "1">>,
      <<"a", "?", ".", "*">>,
      <<"a">>,
      <<"a", ".", "b", ".", "1">>,
      <<"a", ".", "b", ".", "*">>,
      <<"x", ".", "*">>,
      <<"[", "a", "b", "]", ".", "2">>,
      <<"[", "!", "a", "]", ".", "*">>,
      <<"a", ".", "[", "1", "-", "2", "]">>,
      <<"*">>,
      <<>> }

\* The key lists a dict's keys() can give: distinct keys, in any order.
KeyLists ==
    UNION { { s \in [1..n -> Keys] : \A i, j \in 1..n : i # j => s[i] # s[j] }
            : n \in 0..MaxKeys }

DriverIdle ==
    /\ stn_dict = << >>
    /\ pc = "idle"
    /\ self = << >>
    /\ exc = "none"
    /\ ntries = 0
    /\ resp = Response("none", EmptyStatus)
    /\ data = EmptyStatus
    /\ sensors = EmptyDict
    /\ packet = EmptyDict
    /\ consec = 0
    /\ slept = "none"
    /\ yields = 0
    /\ nraised = 0
    /\ fetched = FALSE

MatchInit ==
    /\ pattern \in Patterns
    /\ keylist \in KeyLists
    /\ match = None
    /\ called = FALSE
    /\ DriverIdle

FindMatchCall ==
    /\ ~ called
    /\ match' = _find_match(pattern, keylist)
    /\ called' = TRUE
    /\ UNCHANGED << pattern, keylist >>
    /\ UNCHANGED driverVars

MatchNext == FindMatchCall

MatchSpec == MatchInit /\ [][MatchNext]_vars

(***************************************************************************)
(* Claims about _find_match                                                *)
(***************************************************************************)

\* k is name "." port with no other '.': it splits on '.' into two parts.
TwoParts(k, name, port) ==
    /\ k = name \o << "." >> \o port
    /\ \A i \in 1..Len(name) : name[i] # "."
    /\ \A i \in 1..Len(port) : port[i] # "."

\* The cuts of a string at one of its '.'.
Cuts(k) == { i \in 1..Len(k) : k[i] = "." }

\* Key k satisfies one of the two rules for the pattern pname "." pport.
Satisfies(pname, pport, k) ==
    \/ \E i \in Cuts(k) :
          /\ TwoParts(k, SubSeq(k, 1, i - 1), SubSeq(k, i + 1, Len(k)))
          /\ GlobMatch(pname, SubSeq(k, 1, i - 1))
          /\ GlobMatch(pport, SubSeq(k, i + 1, Len(k)))
    \/ k = pname

\* The pattern is name "." port, at cut i.
PatternCut(i) ==
    TwoParts(pattern, SubSeq(pattern, 1, i - 1), SubSeq(pattern, i + 1, Len(pattern)))

\* C3: for a pattern that is not verbatim in the key list, _find_match
\* returns the first key, in iteration order, that satisfies one of the two
\* rules; it returns None when the pattern has not exactly two parts or no key
\* satisfies a rule.
C3_FirstAcceptedKey ==
    (called /\ ~ InList(pattern, keylist)) =>
        IF \E i \in Cuts(pattern) : PatternCut(i)
        THEN \A i \in Cuts(pattern) : PatternCut(i) =>
               LET pname == SubSeq(pattern, 1, i - 1)
                   pport == SubSeq(pattern, i + 1, Len(pattern))
                   ok    == { n \in 1..Len(keylist) : Satisfies(pname, pport, keylist[n]) }
               IN  IF ok = {} THEN match = None
                   ELSE \E n \in ok : /\ \A n2 \in ok : n <= n2
                                      /\ match = keylist[n]
        ELSE match = None

\* A glob pattern was resolved to the second of two keys that satisfy a rule
\* only because the first in iteration order does not.
C3_Witness ==
    /\ called
    /\ ~ InList(pattern, keylist)
    /\ Len(keylist) = 3
    /\ match = keylist[2]
    /\ \E i \in Cuts(pattern) :
          /\ PatternCut(i)
          /\ Satisfies(SubSeq(pattern, 1, i - 1), SubSeq(pattern, i + 1, Len(pattern)), keylist[3])

\* C8: a pattern present verbatim in the key list is returned as it is.
C8_ExactShortCircuit ==
    (called /\ InList(pattern, keylist)) => match = pattern

\* A two-part pattern is in the key list behind a key that satisfies a rule
\* for it.
C8_Witness ==
    /\ called
    /\ Len(keylist) >= 2
    /\ keylist[2] = pattern
    /\ match = pattern
    /\ \E i \in Cuts(pattern) :
          /\ PatternCut(i)
          /\ Satisfies(SubSeq(pattern, 1, i - 1), SubSeq(pattern, i + 1, Len(pattern)), keylist[1])

\* A three-part pattern is in the key list and is returned.
C8_WitnessThreeParts ==
    /\ called
    /\ Cardinality(Cuts(pattern)) = 2
    /\ InList(pattern, keylist)
    /\ match = pattern

(***************************************************************************)
(* Claims about the driver                                                 *)
(***************************************************************************)

\* The generator is running or has ended: self holds the attributes.
Running == pc \notin { "new", "failed" }

\* sensors is the flattening of the data of the current cycle.
Flattened == pc \in { "flat", "built", "sleep" }

\* C1: with max_tries >= 1, RetriesExceeded is raised at most once, only when
\* the max_tries most recent requests all failed with an IOError, and once
\* they have no further request is issued.
C1_RetriesExceededOnce ==
    (Running /\ self.max_tries >= 1) =>
        /\ nraised <= 1
        /\ (nraised = 1) = (exc = "RetriesExceeded")
        /\ (nraised = 1) = (pc = "aborted")
        /\ (nraised = 1) => consec = self.max_tries
        /\ consec <= self.max_tries
        /\ (pc = "try") => consec < self.max_tries

\* The retries ran out after an earlier cycle had built a record and a later
\* failure had been retried.
C1_Witness ==
    /\ pc = "aborted"
    /\ self.max_tries = 2
    /\ DOMAIN packet # { }
    /\ nraised = 1

\* The answer is a data-shape anomaly in the sense of the claim.
Anomaly(r) ==
    \/ r.kind = "garbage"
    \/ /\ r.kind = "json"
       /\ \/ ~ r.obj.devstatus
          \/ ~ r.obj.has_ports
          \/ \E i \in 1..Len(r.obj.ports) :
                \/ s_Port \notin DOMAIN r.obj.ports[i]
                \/ IsRaised(int(r.obj.ports[i][s_Port]))

\* C2: a data-shape anomaly ends the cycle without a record and without an
\* exception, the loop goes on, and the anomaly does not count as a try.
C2_AnomalyIsQuiet ==
    (pc \in { "got", "flat", "built", "sleep", "while", "raised" }
       /\ resp.kind # "none" /\ Anomaly(resp)) =>
        /\ pc # "raised"
        /\ exc = "none"
        /\ yields = 0
        /\ pc \in { "built", "sleep", "while" } => (DOMAIN packet = { } /\ ntries = 0)

\* The record has a data field for the output field n exactly if label is a
\* key, and the field holds the sample's value under that key.
FieldIs(n, label) ==
    IF label = None THEN n \notin DOMAIN packet
    ELSE n \in DOMAIN packet /\ packet[n] = sensors[label]

C4_WitnessEmpty ==
    /\ pc = "built"
    /\ ~ self.sensor_map.none
    /\ DOMAIN sensors # { }
    /\ DOMAIN packet = { }

\* The port numbers of the port readings of the status.
PortNumbers(raw) ==
    { int(raw.ports[i][s_Port]).m :
        i \in { j \in 1..Len(raw.ports) :
                  /\ s_Port \in DOMAIN raw.ports[j]
                  /\ ~ IsRaised(int(raw.ports[j][s_Port])) } }

\* The key is "<fieldname>.<port>": what follows its last '.' is the decimal
\* numeral of a port number of the status, and what precedes it is a field.
Composite(k, raw) ==
    /\ Cuts(k) # { }
    /\ LET i    == CHOOSE c \in Cuts(k) : \A c2 \in Cuts(k) : c2 <= c
           seg  == SubSeq(k, i + 1, Len(k))
           name == SubSeq(k, 1, i - 1)
       IN  /\ seg # << >>
           /\ AllDigits(seg)
           /\ DigitsVal(seg) \in PortNumbers(raw)
           /\ \E j \in 1..Len(raw.ports) : name \in DOMAIN raw.ports[j] \ { s_Port, s_Dev }

\* C5 as stated: every key of the sample is composite and every value a float.
C5_AllKeysComposite ==
    Flattened =>
        \A k \in DOMAIN sensors : Composite(k, data) /\ sensors[k].t = "float"

\* C5 as amended: every key but sys_time and sys_battery is composite and
\* has a float value; sys_time and sys_battery are there exactly when the
\* status holds Sys_Time and Sys_Batt_V, with the value as decoded.
C5_KeysCompositeButSys ==
    Flattened =>
        /\ \A k \in DOMAIN sensors \ { s_sys_time, s_sys_battery } :
              Composite(k, data) /\ sensors[k].t = "float"
        /\ (s_sys_time \in DOMAIN sensors) = (data.devstatus /\ data.Sys_Time # Absent)
        /\ (s_sys_battery \in DOMAIN sensors) = (data.devstatus /\ data.Sys_Batt_V # Absent)
        /\ s_sys_time \in DOMAIN sensors => sensors[s_sys_time] = data.Sys_Time
        /\ s_sys_battery \in DOMAIN sensors => sensors[s_sys_battery] = data.Sys_Batt_V

\* A sample with keys of two ports and sys_battery, a string.
C5_Witness ==
    /\ pc = "flat"
    /\ data = TwoPorts
    /\ Cardinality(DOMAIN sensors) = 3
    /\ sensors[s_sys_battery].t = "unicode"

\* The fields of reading i of the status that are neither Port nor Dev.
Fields(raw, i) == DOMAIN raw.ports[i] \ { s_Port, s_Dev }

Converts(v) == ~ IsRaised(float(v))

\* The key reading i of the status gives field k.
KeyOf(raw, i, k) == k \o << "." >> \o IntToStr(int(raw.ports[i][s_Port]).m)

\* The readings that write a number under key l, as (reading, field).
Writers(raw, l) ==
    { w \in { << i, k >> : i \in 1..Len(raw.ports), k \in UNION { DOMAIN raw.ports[j] : j \in 1..Len(raw.ports) } } :
        /\ w[2] \in Fields(raw, w[1])
        /\ KeyOf(raw, w[1], w[2]) = l
        /\ Converts(raw.ports[w[1]][w[2]]) }

\* Every reading of the status has a port number.
PortsValid(raw) ==
    \A i \in 1..Len(raw.ports) :
        s_Port \in DOMAIN raw.ports[i] /\ ~ IsRaised(int(raw.ports[i][s_Port]))

\* C6: of a reading with a port number, every field but Port and Dev whose
\* value converts is in the sample under "<field>.<port>" with its number
\* (that of the last reading writing the key), a field whose value does not
\* convert adds nothing, and no field makes raw_to_sensors raise.
C6_ConvertibleFieldsInserted ==
    /\ (Flattened /\ data.devstatus) =>
          \A i \in 1..Len(data.ports) : \A k \in Fields(data, i) :
              LET l == KeyOf(data, i, k)
                  w == Writers(data, l)
              IN  IF w = { } THEN l \notin DOMAIN sensors
                  ELSE /\ l \in DOMAIN sensors
                       /\ \E x \in w : /\ \A y \in w : y[1] <= x[1]
                                       /\ sensors[l] = float(data.ports[x[1]][x[2]])
    /\ (pc = "raised") => (~ data.has_ports \/ ~ PortsValid(data))

\* Two readings, each with a field that does not convert beside one that does.
C6_Witness ==
    /\ pc = "flat"
    /\ data = TwoPorts
    /\ DOMAIN sensors \ { s_sys_battery } =
          { KeyOf(data, 1, k) : k \in { x \in Fields(data, 1) : Converts(data.ports[1][x]) } }
          \cup { KeyOf(data, 2, k) : k \in { x \in Fields(data, 2) : Converts(data.ports[2][x]) } }
    /\ \E k \in Fields(data, 1) : ~ Converts(data.ports[1][k])
    /\ \E k \in Fields(data, 2) : ~ Converts(data.ports[2][k])

\* C7: in a cycle a record is handed to the caller exactly if the record built
\* is not empty, and at most one; a cycle with an empty record is no error,
\* sleeps the poll interval and goes on to the next cycle.
C7_EmitIffNonEmpty ==
    /\ [](/\ yields <= 1
          /\ pc \in { "try", "got", "flat", "built", "except" } => yields = 0
          /\ pc = "sleep" => ((yields = 1) = (DOMAIN packet # { }) /\ exc = "none")
          /\ (pc = "while" /\ slept = "poll") =>
                ((yields = 1) = (DOMAIN packet # { }) /\ exc = "none"))
    /\ [][(pc = "sleep") =>
             (pc' = "while" /\ slept' = "poll" /\ yields' = yields /\ exc' = "none")]_vars
    /\ [][(pc = "while" /\ slept = "poll") => pc' = "try"]_vars

\* A cycle with an empty record has slept the poll interval and the loop is
\* back at its test, nothing emitted.
C7_Witness ==
    /\ pc = "while"
    /\ slept = "poll"
    /\ resp = Response("json", LabelOnly)
    /\ DOMAIN packet = { }
    /\ yields = 0
    /\ exc = "none"

\* C9: the loop raises RetriesExceeded without sleeping retry_wait first, and
\* sleeps retry_wait only while ntries is below max_tries.
C9_NoSleepBeforeAbort ==
    (Running /\ self.max_tries >= 1) =>
        /\ pc = "aborted" => slept # "retry"
        /\ (pc = "while" /\ slept = "retry") => ntries < self.max_tries

\* The text is a decimal integer.
IntegerText(v) == v.s # << >> /\ AllDigits(v.s)

\* The option of the stanza is left out or a decimal integer.
IntegerOrOmitted(key) == key \in DOMAIN stn_dict => IntegerText(stn_dict[key])

\* host is missing, or poll_interval is given and below the floor.
HostOrPollIntervalBad ==
    \/ "host" \notin DOMAIN stn_dict
    \/ /\ "poll_interval" \in DOMAIN stn_dict
       /\ IntegerText(stn_dict["poll_interval"])
       /\ DigitsVal(stn_dict["poll_interval"].s) < MinPollInterval

\* Construction failed: no driver, no request, no try.
FailedAtConstruction ==
    /\ pc = "failed"
    /\ exc # "none"
    /\ self = << >>
    /\ ~ fetched
    /\ ntries = 0

C10_WitnessSuccess ==
    /\ pc = "sleep"
    /\ "poll_interval" \notin DOMAIN stn_dict
    /\ self.poll_interval = DefaultPollInterval

\* C11: every record handed to the caller carries dateTime and usUnits,
\* whatever sensor map the constructor accepted, None included.
C11_EmittedRecordIsStamped ==
    (pc = "sleep" /\ yields = 1) =>
        /\ s_dateTime \in DOMAIN packet
        /\ s_usUnits \in DOMAIN packet
        /\ packet[s_usUnits] = PyInt(US)

\* The output field the default map gives the system battery voltage.
s_system_battery_voltage == <<"s", "y", "s", "t", "e", "m", "_", "b", "a", "t", "t", "e", "r", "y", "_", "v", "o", "l", "t", "a", "g", "e">>

\* C12: with the default sensor map, a status that carries Sys_Batt_V gives a
\* record whose field system_battery_voltage holds that value.
C12_DefaultMapHasSystemBattery ==
    (/\ pc \in { "built", "sleep" }
     /\ "sensor_map" \notin DOMAIN stn_dict
     /\ data.devstatus
     /\ data.Sys_Batt_V # Absent) =>
        /\ s_system_battery_voltage \in DOMAIN packet
        /\ packet[s_system_battery_voltage] = data.Sys_Batt_V

====
